---- MODULE Spec2Model ----
(***************************************************************************)
(* Model of torch::jit::specializeUndef                                    *)
(* (torch/csrc/jit/passes/specialize_undef.cpp).                           *)
(*                                                                         *)
(* The pass walks the top-level block of a gradient graph once, keeps a    *)
(* map  Value* -> {Defined, Undefined, Unknown}  and rewrites GradOf and   *)
(* AutogradAdd nodes in place.  The graph is the input of the pass: Init   *)
(* draws it from a bounded family of well-formed graphs (definitions       *)
(* precede uses, a GradOf has one block with as many block outputs as the  *)
(* node has outputs).                                                      *)
(*                                                                         *)
(* Values are numbers: graph input i is value i, output j of the p-th      *)
(* top-level node is 10p+j, the output of the q-th node of the block of    *)
(* the p-th node is 100p+10q+1, and the output of the c-th node the pass   *)
(* creates is 1000+10c+1.  A node's id is the value number of its (absent) *)
(* output 0.                                                               *)
(***************************************************************************)
EXTENDS Integers, Sequences, FiniteSets, TLC

\* ------------------------------------------------------------------ bounds
\* total number of nodes of an input graph, nested nodes included
MaxNodes == 3

\* ------------------------------------------------------------- the lattice
\* enum class State { Defined, Undefined, Unknown }
States == {"Defined", "Undefined", "Unknown"}

\* the static types a graph input carries
Types == {"UndefinedTensor", "Dynamic", "Tensor", "Int"}

\* Type::isSubtypeOf: an undefined tensor and a tensor of known shape are
\* dynamic tensors; an int is neither
isSubtypeOf(t, u) ==
    \/ t = u
    \/ t \in {"UndefinedTensor", "Tensor"} /\ u = "Dynamic"

\* ------------------------------------------------------------------- nodes
Kinds == {"GradOf", "AutogradAdd", "Undefined", "Other", "Add"}

Node(id, kind, ins, nouts, body, bouts) ==
    [id |-> id, kind |-> kind, ins |-> ins,
     outs |-> [j \in 1..nouts |-> id + j], body |-> body, bouts |-> bouts]

Range(s) == {s[i] : i \in 1..Len(s)}

RECURSIVE Weight(_)
RECURSIVE SeqWeight(_)
\* the number of nodes in a node's subtree
Weight(n) == 1 + SeqWeight(n.body)
SeqWeight(s) == IF s = <<>> THEN 0 ELSE Weight(Head(s)) + SeqWeight(Tail(s))

\* the values the nodes of a sequence define (top level of the sequence only)
Defs(s) == UNION {Range(s[i].outs) : i \in 1..Len(s)}

RECURSIVE OutsOf(_)
\* the same values, in order
OutsOf(s) == IF s = <<>> THEN <<>> ELSE Head(s).outs \o OutsOf(Tail(s))

\* ------------------------------------------------- the family of input graphs
\* the kinds of node a nested block is built from
BodyKinds == {"Other", "Undefined", "AutogradAdd", "GradOf"}

\* the q-th node of the block of the node with id pid.  It reads the previous
\* node of the block (or the first input of the enclosing node, or graph
\* input 1) and, for an AutogradAdd, the last input of the enclosing node.
BodyNode(pid, q, kind, ins) ==
    LET id == 10 * pid + 10 * q
        prev == IF q > 1 THEN 10 * pid + 10 * (q - 1) + 1
                ELSE IF ins # <<>> THEN ins[1] ELSE 1
        oth == IF ins # <<>> THEN ins[Len(ins)] ELSE 1
    IN CASE kind = "Other" -> Node(id, "Other", <<prev>>, 1, <<>>, <<>>)
         [] kind = "Undefined" -> Node(id, "Undefined", <<>>, 1, <<>>, <<>>)
         [] kind = "AutogradAdd" ->
                Node(id, "AutogradAdd", <<prev, oth>>, 1, <<>>, <<>>)
         [] kind = "GradOf" -> Node(id, "GradOf", <<prev>>, 1, <<>>, <<prev>>)

\* the blocks of at most k nodes
Bodies(pid, ins, k) ==
    {[q \in 1..Len(ks) |-> BodyNode(pid, q, ks[q], ins)] :
        ks \in UNION {[1..m -> BodyKinds] : m \in 0..k}}

Reverse(s) == [i \in 1..Len(s) |-> s[Len(s) + 1 - i]]

\* the block outputs of a GradOf: the block's values, last first, then the
\* node's inputs, then graph input 1
BlockOuts(body, ins, nouts) ==
    LET L == Reverse([q \in 1..Len(body) |-> body[q].outs[1]]) \o ins
    IN [i \in 1..nouts |-> IF i <= Len(L) THEN L[i] ELSE 1]

\* a GradOf of the family has one output or two
OutCounts == {1, 2}

\* the input lists of a GradOf that reads the values x < y: any sublist
GradIns(x, y) == {<<>>, <<x>>, <<y>>, <<x, y>>}

\* the nodes that can stand at top-level position p with at most budget nodes
\* in their subtree; a node reads the two values defined last before it
TopNodes(p, vals, budget) ==
    LET id == 10 * p
        x == vals[Len(vals) - 1]
        y == vals[Len(vals)]
        W == {x, y}
    IN
    IF budget < 1 THEN {} ELSE
       {Node(id, "Undefined", <<>>, 1, <<>>, <<>>)}
    \cup {Node(id, "Other", <<v>>, 1, <<>>, <<>>) : v \in W}
    \cup UNION {{Node(id, "Other", <<v>>, 1, b, <<>>) :
                    b \in {bb \in Bodies(id, <<v>>, 1) :
                             budget >= 2 /\ Len(bb) = 1
                             /\ bb[1].kind \in {"AutogradAdd", "GradOf"}}} :
                v \in W}
    \cup {Node(id, "AutogradAdd", <<v, w>>, 1, <<>>, <<>>) : v \in W, w \in W}
    \cup UNION {UNION {{Node(id, "GradOf", ins, k, b, BlockOuts(b, ins, k)) :
                          k \in OutCounts} :
                       b \in Bodies(id, ins, budget - 1)} :
                ins \in GradIns(x, y)}

\* the graph inputs and their static types
GraphInputs == <<1, 2>>
Typing == (1 :> "UndefinedTensor") @@ (2 :> "Dynamic")

VARIABLES itype, nodes, gouts, state, defaulted, pos, pc, run, fresh, base, last, orig,
          visited

vars == <<itype, nodes, gouts, state, defaulted, pos, pc, run, fresh, base, last, orig,
          visited>>

RECURSIVE IsGraphFrom(_, _, _, _)
\* the input graph extends the node sequence acc by nodes for positions p, p+1, ...
IsGraphFrom(p, vals, budget, acc) ==
    \/ nodes = acc
    \/ \E n \in TopNodes(p, vals, budget) :
          IsGraphFrom(p + 1, vals \o n.outs, budget - Weight(n), acc \o <<n>>)

Init ==
    /\ itype = Typing
    /\ IsGraphFrom(1, GraphInputs, MaxNodes, <<>>)
    /\ gouts = OutsOf(nodes)
    /\ state = <<>>
    /\ defaulted = {}
    /\ pos = 1
    /\ pc = "seed"
    /\ run = 1
    /\ fresh = 0
    /\ base = 0
    /\ last = [op |-> "none"]
    /\ orig = nodes
    /\ visited = {}

\* ------------------------------------------------------ graph primitives
\* std::unordered_map::operator[] : a value without an entry gets a
\* value-initialised one, State(0), the first enumerator
StLastEnumerator(st, v) == IF v \in DOMAIN st THEN st[v] ELSE "Unknown"
St(st, v) == IF v \in DOMAIN st THEN st[v] ELSE "Defined"

\* the entries operator[] creates when the values of vs are looked up
Touch(st, vs) == [v \in DOMAIN st \cup vs |-> St(st, v)]

\* an assignment state[v] = s
Put(st, v, s) == [w \in DOMAIN st \cup {v} |-> IF w = v THEN s ELSE st[w]]

InsertAt(s, i, x) == SubSeq(s, 1, i - 1) \o <<x>> \o SubSeq(s, i, Len(s))
RemoveAt(s, i) == SubSeq(s, 1, i - 1) \o SubSeq(s, i + 1, Len(s))

ReplVals(s, old, new) == [i \in 1..Len(s) |-> IF s[i] = old THEN new ELSE s[i]]

RECURSIVE ReplNodes(_, _, _)
\* the uses of old in a node sequence, at any depth, repointed to new
ReplNodes(s, old, new) ==
    [i \in 1..Len(s) |->
        [s[i] EXCEPT !.ins = ReplVals(@, old, new),
                     !.body = ReplNodes(@, old, new),
                     !.bouts = ReplVals(@, old, new)]]

\* Value::replaceAllUsesWith on a graph g = [nodes, gouts]
replaceAllUsesWith(g, old, new) ==
    [nodes |-> ReplNodes(g.nodes, old, new), gouts |-> ReplVals(g.gouts, old, new)]

RECURSIVE UsedIn(_, _)
\* whether some node of s, at any depth, uses v
UsedIn(v, s) ==
    \E i \in 1..Len(s) :
        \/ v \in Range(s[i].ins)
        \/ v \in Range(s[i].bouts)
        \/ UsedIn(v, s[i].body)

\* whether v has a use in the graph
HasUses(g, v) == UsedIn(v, g.nodes) \/ v \in Range(g.gouts)

\* Node::destroy on the node at index i: legal when its outputs have no uses
CanDestroy(g, i) == \A j \in 1..Len(g.nodes[i].outs) : ~HasUses(g, g.nodes[i].outs[j])
destroy(g, i) == [g EXCEPT !.nodes = RemoveAt(@, i)]

\* Graph::createUndefined and the addition of symbolic_variable.h
NewId(c) == 1000 + 10 * c
createUndefined(c) == Node(NewId(c), "Undefined", <<>>, 1, <<>>, <<>>)
createAdd(c, a, b) == Node(NewId(c), "Add", <<a, b>>, 1, <<>>, <<>>)

\* ------------------------------------------------------------- the pass
Graph == [nodes |-> nodes, gouts |-> gouts]
AtNode == pc = "walk" /\ pos <= Len(nodes)
cur == nodes[pos]
Snap(op) == [op |-> op, n |-> cur, at |-> pos, nodes |-> nodes, gouts |-> gouts,
             state |-> state, run |-> run, visited |-> visited]

SeedStateTensorFirst(tp) ==
    IF isSubtypeOf(tp, "Dynamic") THEN "Defined"
    ELSE IF isSubtypeOf(tp, "UndefinedTensor") THEN "Undefined"
    ELSE "Unknown"
\* lines 17-27: the state of a graph input, from its type
SeedState(tp) ==
    IF isSubtypeOf(tp, "UndefinedTensor") THEN "Undefined"
    ELSE IF isSubtypeOf(tp, "Dynamic") THEN "Defined"
    ELSE "Unknown"

Seed ==
    /\ pc = "seed"
    /\ state' = [v \in Range(GraphInputs) |-> SeedState(itype[v])]
    /\ pc' = "walk"
    /\ pos' = 1
    /\ last' = [op |-> "seed"]
    /\ UNCHANGED <<itype, nodes, gouts, defaulted, run, fresh, base, orig, visited>>

\* the graph, or the failure of the assertion of Node::destroy
Finish(g, i, newpos) ==
    IF CanDestroy(g, i)
    THEN /\ nodes' = destroy(g, i).nodes
         /\ gouts' = g.gouts
         /\ pos' = newpos
         /\ pc' = pc
    ELSE /\ nodes' = g.nodes
         /\ gouts' = g.gouts
         /\ pos' = pos
         /\ pc' = "aborted"

\* lines 70-71: the operands of an AutogradAdd
operandASwapped(n) == n.ins[2]
operandA(n) == n.ins[1]
operandBWrong(n) == n.ins[1]
operandB(n) == n.ins[2]

\* lines 33-36
all_undefinedNotDefined(n, st) ==
    \A i \in 1..Len(n.ins) : St(st, n.ins[i]) # "Defined"
all_undefined(n, st) == \A i \in 1..Len(n.ins) : St(st, n.ins[i]) = "Undefined"

ReplOutsFirstOnly(g, k, i, v) == replaceAllUsesWith(g, g.nodes[k].outs[1], v)
RECURSIVE ReplOutsByValue(_, _, _, _)
\* lines 41-43: outputs i.. of the node at index k redirected to v, in turn
ReplOutsByValue(g, k, i, v) ==
    IF i > Len(g.nodes[k].outs) THEN g
    ELSE ReplOutsByValue(replaceAllUsesWith(g, g.nodes[k].outs[i], v), k, i + 1, v)

RECURSIVE ReplOutsByFirstBlockOut(_, _, _)
ReplOutsByFirstBlockOut(g, k, i) ==
    IF i > Len(g.nodes[k].outs) THEN g
    ELSE ReplOutsByFirstBlockOut(
             replaceAllUsesWith(g, g.nodes[k].outs[i], g.nodes[k].bouts[1]), k, i + 1)
RECURSIVE ReplOutsByBlockButLast(_, _, _)
ReplOutsByBlockButLast(g, k, i) ==
    IF i >= Len(g.nodes[k].outs) THEN g
    ELSE ReplOutsByBlockButLast(
             replaceAllUsesWith(g, g.nodes[k].outs[i], g.nodes[k].bouts[i]), k, i + 1)
RECURSIVE ReplOutsByBlock(_, _, _)
\* lines 64-65: outputs i.. of the node at index k redirected to the outputs
\* of its block, in turn
ReplOutsByBlock(g, k, i) ==
    IF i > Len(g.nodes[k].outs) THEN g
    ELSE ReplOutsByBlock(
             replaceAllUsesWith(g, g.nodes[k].outs[i], g.nodes[k].bouts[i]), k, i + 1)

\* line 40: insertAfter(n), the index the new node gets
UndefIndexAtEnd(p) == Len(nodes) + 1
UndefIndex(p) == p + 1

\* lines 67, 76, 80 and 29: after it.destroyCurrent() on the node at index k
\* the iterator stands on the node before it, and ++it moves it to the node
\* that took index k
AfterDestroySkip(k) == k + 1
AfterDestroyBack(k) == IF k > 1 THEN k - 1 ELSE k
AfterDestroy(k) == k

\* lines 83-87 and 29: new_add is inserted before n; destroyCurrent() leaves
\* the iterator on new_add and ++it moves it past
AfterUpgradeRevisit(p) == p
AfterUpgrade(p) == p + 1

\* line 100
OtherOutStateDefined(n) == "Defined"
OtherOutState(n) == "Unknown"

\* line 40: the node made for an all-undefined GradOf
undefZeros(c) == Node(NewId(c), "Other", <<>>, 1, <<>>, <<>>)
undef(c) == createUndefined(c)

\* lines 39-43 and 67
GradOfAllUndefined ==
    /\ AtNode
    /\ cur.kind = "GradOf"
    /\ all_undefined(cur, state)
    /\ LET u == undef(fresh + 1)
           g1 == [nodes |-> InsertAt(nodes, UndefIndex(pos), u), gouts |-> gouts]
           g2 == ReplOutsByValue(g1, pos, 1, u.outs[1])
       IN Finish(g2, pos, AfterDestroy(pos))
    /\ fresh' = fresh + 1
    /\ last' = Snap("all_undefined")
    /\ visited' = visited \cup {cur.id}
    /\ UNCHANGED <<itype, state, defaulted, run, base, orig>>

\* the inputs the checks of lines 33-36 and 51-57 look up
GradOfLookups(n, st) ==
    LET unk == {i \in 1..Len(n.ins) : St(st, n.ins[i]) = "Unknown"}
        upto == IF unk = {} THEN Len(n.ins)
                ELSE CHOOSE i \in unk : \A j \in unk : i <= j
    IN {n.ins[i] : i \in 1..upto}

\* lines 44-67, the assertion holding
GradOfHoist ==
    /\ AtNode
    /\ cur.kind = "GradOf"
    /\ ~all_undefined(cur, state)
    /\ \A i \in 1..Len(cur.ins) : St(state, cur.ins[i]) # "Unknown"
    /\ LET k == pos + Len(cur.body)
           g1 == [nodes |-> SubSeq(nodes, 1, pos - 1) \o cur.body
                            \o <<[cur EXCEPT !.body = <<>>]>>
                            \o SubSeq(nodes, pos + 1, Len(nodes)),
                  gouts |-> gouts]
           g2 == ReplOutsByBlock(g1, k, 1)
       IN Finish(g2, k, AfterDestroy(k))
    /\ state' = Touch(state, GradOfLookups(cur, state))
    /\ defaulted' = defaulted \cup (GradOfLookups(cur, state) \ DOMAIN state)
    /\ last' = Snap("hoist")
    /\ visited' = visited \cup {cur.id}
    /\ UNCHANGED <<itype, run, fresh, base, orig>>

GradOfAssertAfterMove ==
    /\ AtNode
    /\ cur.kind = "GradOf"
    /\ ~all_undefined(cur, state)
    /\ \E i \in 1..Len(cur.ins) : St(state, cur.ins[i]) = "Unknown"
    /\ pc' = "aborted"
    /\ nodes' = SubSeq(nodes, 1, pos - 1) \o cur.body
                 \o <<[cur EXCEPT !.body = <<>>]>>
                 \o SubSeq(nodes, pos + 1, Len(nodes))
    /\ state' = Touch(state, GradOfLookups(cur, state))
    /\ defaulted' = defaulted \cup (GradOfLookups(cur, state) \ DOMAIN state)
    /\ last' = Snap("assert")
    /\ visited' = visited \cup {cur.id}
    /\ UNCHANGED <<itype, gouts, pos, run, fresh, base, orig>>

\* line 56: JIT_ASSERT(state[input] != State::Unknown) fails
GradOfAssert ==
    /\ AtNode
    /\ cur.kind = "GradOf"
    /\ ~all_undefined(cur, state)
    /\ \E i \in 1..Len(cur.ins) : St(state, cur.ins[i]) = "Unknown"
    /\ pc' = "aborted"
    /\ state' = Touch(state, GradOfLookups(cur, state))
    /\ defaulted' = defaulted \cup (GradOfLookups(cur, state) \ DOMAIN state)
    /\ last' = Snap("assert")
    /\ visited' = visited \cup {cur.id}
    /\ UNCHANGED <<itype, nodes, gouts, pos, run, fresh, base, orig>>

\* lines 73-76
AddDropA ==
    /\ AtNode
    /\ cur.kind = "AutogradAdd"
    /\ St(state, operandA(cur)) = "Undefined"
    /\ Finish(replaceAllUsesWith(Graph, cur.outs[1], operandB(cur)), pos,
              AfterDestroy(pos))
    /\ last' = Snap("drop_a")
    /\ visited' = visited \cup {cur.id}
    /\ UNCHANGED <<itype, state, defaulted, run, fresh, base, orig>>

\* lines 77-80
AddDropB ==
    /\ AtNode
    /\ cur.kind = "AutogradAdd"
    /\ St(state, operandA(cur)) # "Undefined"
    /\ St(state, operandB(cur)) = "Undefined"
    /\ Finish(replaceAllUsesWith(Graph, cur.outs[1], operandA(cur)), pos,
              AfterDestroy(pos))
    /\ state' = Touch(state, {operandA(cur)})
    /\ defaulted' = defaulted \cup ({operandA(cur)} \ DOMAIN state)
    /\ last' = Snap("drop_b")
    /\ visited' = visited \cup {cur.id}
    /\ UNCHANGED <<itype, run, fresh, base, orig>>

\* lines 81-87
AddUpgrade ==
    /\ AtNode
    /\ cur.kind = "AutogradAdd"
    /\ St(state, operandA(cur)) = "Defined"
    /\ St(state, operandB(cur)) = "Defined"
    /\ LET add == createAdd(fresh + 1, operandA(cur), operandB(cur))
           g1 == [nodes |-> InsertAt(nodes, pos, add), gouts |-> gouts]
           g2 == replaceAllUsesWith(g1, cur.outs[1], add.outs[1])
       IN /\ Finish(g2, pos + 1, AfterUpgrade(pos))
          /\ state' = Put(Touch(state, {operandA(cur), operandB(cur)}),
                          add.outs[1], "Defined")
    /\ defaulted' = defaulted \cup ({operandA(cur), operandB(cur)} \ DOMAIN state)
    /\ fresh' = fresh + 1
    /\ last' = Snap("upgrade")
    /\ visited' = visited \cup {cur.id}
    /\ UNCHANGED <<itype, run, base, orig>>

\* lines 88-93
AddKeep ==
    /\ AtNode
    /\ cur.kind = "AutogradAdd"
    /\ St(state, operandA(cur)) # "Undefined"
    /\ St(state, operandB(cur)) # "Undefined"
    /\ ~(St(state, operandA(cur)) = "Defined" /\ St(state, operandB(cur)) = "Defined")
    /\ state' = Put(Touch(state, {operandA(cur), operandB(cur)}),
                    cur.outs[1], "Unknown")
    /\ defaulted' = defaulted \cup ({operandA(cur), operandB(cur)} \ DOMAIN state)
    /\ pos' = pos + 1
    /\ last' = Snap("keep")
    /\ visited' = visited \cup {cur.id}
    /\ UNCHANGED <<itype, nodes, gouts, pc, run, fresh, base, orig>>

\* lines 95-97
UndefinedNode ==
    /\ AtNode
    /\ cur.kind = "Undefined"
    /\ state' = Put(state, cur.outs[1], "Undefined")
    /\ pos' = pos + 1
    /\ last' = Snap("undefined")
    /\ visited' = visited \cup {cur.id}
    /\ UNCHANGED <<itype, nodes, gouts, defaulted, pc, run, fresh, base, orig>>

\* lines 98-102
OtherNode ==
    /\ AtNode
    /\ cur.kind \notin {"GradOf", "AutogradAdd", "Undefined"}
    /\ state' = [v \in DOMAIN state \cup Range(cur.outs) |->
                    IF v \in Range(cur.outs) THEN OtherOutState(cur) ELSE state[v]]
    /\ pos' = pos + 1
    /\ last' = Snap("other")
    /\ visited' = visited \cup {cur.id}
    /\ UNCHANGED <<itype, nodes, gouts, defaulted, pc, run, fresh, base, orig>>

\* line 29: it == g.nodes().end(), the pass returns
Return ==
    /\ pc = "walk"
    /\ pos > Len(nodes)
    /\ pc' = "done"
    /\ last' = [op |-> "return"]
    /\ UNCHANGED <<itype, nodes, gouts, state, defaulted, pos, run, fresh, base, orig,
                   visited>>

\* the caller runs the pass a second time, on the graph the first run left
Rerun ==
    /\ pc = "done"
    /\ run = 1
    /\ run' = 2
    /\ pc' = "seed"
    /\ state' = <<>>
    /\ defaulted' = {}
    /\ pos' = 1
    /\ base' = fresh
    /\ last' = [op |-> "rerun"]
    /\ visited' = {}
    /\ UNCHANGED <<itype, nodes, gouts, fresh, orig>>

Next ==
    \/ Seed
    \/ GradOfAllUndefined
    \/ GradOfHoist
    \/ GradOfAssert
    \/ AddDropA
    \/ AddDropB
    \/ AddUpgrade
    \/ AddKeep
    \/ UndefinedNode
    \/ OtherNode
    \/ Return
    \/ Rerun

Spec == Init /\ [][Next]_vars

\* the pass on smaller graphs whose inputs carry any types
InitSeed ==
    /\ itype \in [Range(GraphInputs) -> Types]
    /\ IsGraphFrom(1, GraphInputs, MaxNodes - 1, <<>>)
    /\ gouts = OutsOf(nodes)
    /\ state = <<>>
    /\ defaulted = {}
    /\ pos = 1
    /\ pc = "seed"
    /\ run = 1
    /\ fresh = 0
    /\ base = 0
    /\ last = [op |-> "none"]
    /\ orig = nodes
    /\ visited = {}

SpecSeed == InitSeed /\ [][Next]_vars

\* ---------------------------------------------------------- the claims
StepOps == {"all_undefined", "hoist", "assert", "drop_a", "drop_b", "upgrade",
            "keep", "undefined", "other"}
\* the last step dispatched a node: last holds the node and the graph before
Stepped == last.op \in StepOps

SubstVals(s, f) == [i \in 1..Len(s) |-> IF s[i] \in DOMAIN f THEN f[s[i]] ELSE s[i]]

RECURSIVE SubstNodes(_, _)
\* every reference to a value of DOMAIN f replaced by its image, at once
SubstNodes(s, f) ==
    [i \in 1..Len(s) |->
        [s[i] EXCEPT !.ins = SubstVals(@, f),
                     !.body = SubstNodes(@, f),
                     !.bouts = SubstVals(@, f)]]

RECURSIVE IdsOf(_)
\* the ids of the nodes of a sequence, at any depth
IdsOf(s) == UNION {{s[i].id} \cup IdsOf(s[i].body) : i \in 1..Len(s)}

TopKinds(k) == {i \in 1..Len(nodes) : nodes[i].kind = k}

\* C1: when the pass has returned, no GradOf node is in the top-level block,
\* the nodes spliced in from GradOf blocks included.
C1_NoGradOfRemains == pc = "done" => TopKinds("GradOf") = {}

\* C2: when the pass has returned, every AutogradAdd of the top-level block
\* has an operand of state Unknown, none of state Undefined.
C2_RemainingAddsUnknown ==
    pc = "done" =>
        \A i \in TopKinds("AutogradAdd") :
            /\ "Unknown" \in {St(state, nodes[i].ins[1]), St(state, nodes[i].ins[2])}
            /\ "Undefined" \notin {St(state, nodes[i].ins[1]), St(state, nodes[i].ins[2])}

\* C3: a second run of the pass changes nothing in the graph.
C3_SecondRunIsNoOp == [][run = 2 => nodes' = nodes /\ gouts' = gouts]_vars

\* the states the inputs of the node of the last step had before the step
LastInStates == {St(last.state, last.n.ins[i]) : i \in 1..Len(last.n.ins)}
\* the top-level block before the last step, without its node at index p
LastBefore(p) == SubSeq(last.nodes, 1, p - 1)
LastAfter(p) == SubSeq(last.nodes, p + 1, Len(last.nodes))
\* the index of the value v among the outputs of the node n
OutIndex(n, v) == CHOOSE i \in 1..Len(n.outs) : n.outs[i] = v

\* C4: a GradOf whose inputs are Defined or Undefined, not all Undefined, is
\* gone after its step; the nodes of its block stand where it stood, in their
\* order, and each use of its i-th output refers to the i-th block output.
C4_Unconditionalized ==
    (Stepped /\ last.n.kind = "GradOf" /\ "Unknown" \notin LastInStates
        /\ LastInStates # {"Undefined"} /\ LastInStates # {}) =>
        LET n == last.n
            p == last.at
            f == [v \in Range(n.outs) |-> n.bouts[OutIndex(n, v)]]
        IN /\ pc # "aborted"
           /\ n.id \notin IdsOf(nodes)
           /\ \A q \in 1..Len(n.body) : nodes[p + q - 1].id = n.body[q].id
           /\ nodes = SubstNodes(LastBefore(p) \o n.body \o LastAfter(p), f)
           /\ gouts = SubstVals(last.gouts, f)

C4_Witness ==
    /\ Stepped /\ last.op = "hoist" /\ pc # "aborted"
    /\ Len(last.n.body) = 2 /\ Len(last.n.outs) = 2
    /\ last.n.bouts[1] # last.n.bouts[2]
    /\ \A j \in 1..2 : last.n.outs[j] \in Range(last.gouts)

\* C5: a GradOf whose inputs are all Undefined (or that has none) is gone
\* after its step together with its block, and every use of any of its
\* outputs refers to the output of one new Undefined node.
C5_AllUndefinedEliminated ==
    (Stepped /\ last.n.kind = "GradOf" /\ LastInStates \subseteq {"Undefined"}) =>
        LET n == last.n
            p == last.at
            u == nodes[p]
            f == [v \in Range(n.outs) |-> u.outs[1]]
        IN /\ pc # "aborted"
           /\ ({n.id} \cup IdsOf(n.body)) \cap IdsOf(nodes) = {}
           /\ u.kind = "Undefined" /\ u.id \notin IdsOf(last.nodes)
           /\ nodes = SubstNodes(LastBefore(p) \o <<u>> \o LastAfter(p), f)
           /\ gouts = SubstVals(last.gouts, f)

C5_Witness ==
    /\ Stepped /\ last.op = "all_undefined" /\ pc # "aborted"
    /\ last.n.ins = <<>> /\ Len(last.n.outs) = 2 /\ last.n.body # <<>>
    /\ \A j \in 1..2 : UsedIn(last.n.outs[j], LastAfter(last.at))

\* C6: an AutogradAdd(a, b) with a Undefined is removed and its uses refer to
\* b; otherwise, with b Undefined, they refer to a.  No node is created, and
\* with both Undefined the result b is Undefined for later nodes.
C6_IdentityLaws ==
    (Stepped /\ last.n.kind = "AutogradAdd" /\ "Undefined" \in LastInStates) =>
        LET n == last.n
            p == last.at
            a == n.ins[1]
            b == n.ins[2]
            t == IF St(last.state, a) = "Undefined" THEN b ELSE a
            f == [v \in {n.outs[1]} |-> t]
        IN /\ pc # "aborted"
           /\ nodes = SubstNodes(LastBefore(p) \o LastAfter(p), f)
           /\ gouts = SubstVals(last.gouts, f)
           /\ IdsOf(nodes) \subseteq IdsOf(last.nodes)
           /\ LastInStates = {"Undefined"} => St(state, t) = "Undefined"

C6_Witness ==
    /\ Stepped /\ last.op = "drop_a" /\ pc # "aborted"
    /\ LastInStates = {"Undefined"}
    /\ last.n.ins[1] # last.n.ins[2]
    /\ last.n.outs[1] \in Range(last.gouts)

\* C7: an AutogradAdd(a, b) with both operands Defined is replaced, at its
\* position, by one new addition of a and b that takes over its uses; the
\* output of an addition created in this run is Defined for the rest of it.
C7_DefinedUpgrade ==
    /\ (Stepped /\ last.n.kind = "AutogradAdd" /\ LastInStates = {"Defined"}) =>
        LET n == last.n
            p == last.at
            new == nodes[p]
            f == [v \in {n.outs[1]} |-> new.outs[1]]
        IN /\ pc # "aborted"
           /\ new.kind = "Add" /\ new.ins = n.ins
           /\ IdsOf(nodes) \ IdsOf(last.nodes) = {new.id}
           /\ nodes = SubstNodes(LastBefore(p) \o <<new>> \o LastAfter(p), f)
           /\ gouts = SubstVals(last.gouts, f)
    /\ \A i \in TopKinds("Add") :
           nodes[i].id > NewId(base) => St(state, nodes[i].outs[1]) = "Defined"

C7_Witness ==
    /\ Stepped /\ last.op = "upgrade" /\ pc # "aborted"
    /\ \E i \in TopKinds("Add") :
           /\ nodes[i].id > NewId(base)
           /\ nodes[i].outs[1] \in Range(last.n.ins)

\* C8: the step of a GradOf that has an input of state Unknown aborts the
\* pass and leaves the graph as it was, whatever the other inputs are.
C8_UnknownInputAborts ==
    (Stepped /\ last.n.kind = "GradOf" /\ "Unknown" \in LastInStates) =>
        /\ pc = "aborted"
        /\ nodes = last.nodes
        /\ gouts = last.gouts

C8_Witness ==
    /\ Stepped /\ last.n.kind = "GradOf" /\ pc = "aborted"
    /\ LastInStates = {"Unknown", "Undefined"}

RECURSIVE Scoped(_, _)
\* every reference in the node sequence s refers to a value of avail or to an
\* output of a node that stands before the reference, in the same block or in
\* an enclosing one
Scoped(s, avail) ==
    \A i \in 1..Len(s) :
        LET seen == avail \cup Defs(SubSeq(s, 1, i - 1))
        IN /\ Range(s[i].ins) \subseteq seen
           /\ Scoped(s[i].body, seen)
           /\ Range(s[i].bouts) \subseteq seen \cup Defs(s[i].body)

\* C9: in every state of a run, every input of every node, every block output
\* and every graph output refers to a graph input or to an output of a node
\* that is in the graph and precedes the reference.
C9_DefUseIntegrity ==
    /\ Scoped(nodes, Range(GraphInputs))
    /\ Range(gouts) \subseteq Range(GraphInputs) \cup Defs(nodes)

C9_Witness ==
    /\ Stepped /\ last.op = "all_undefined" /\ pc # "aborted"
    /\ \E i \in last.at + 1..Len(last.nodes) :
           /\ last.n.outs[1] \in Range(last.nodes[i].ins)
           /\ UsedIn(last.n.outs[1], last.nodes[i].body)

\* C10: the step of an AutogradAdd with no Undefined and some Unknown operand
\* leaves the graph alone and marks the output Unknown; the step of a node of
\* another kind than GradOf, AutogradAdd and Undefined leaves the graph alone,
\* marks the outputs Unknown and writes no state for the values of its
\* blocks; the step of an Undefined node leaves the graph alone and marks the
\* output Undefined.
C10_ConservativeFallback ==
    Stepped =>
        LET n == last.n
            same == nodes = last.nodes /\ gouts = last.gouts /\ pc = "walk"
        IN /\ (n.kind = "AutogradAdd" /\ "Undefined" \notin LastInStates
                 /\ "Unknown" \in LastInStates) =>
                  same /\ St(state, n.outs[1]) = "Unknown"
           /\ n.kind \notin {"GradOf", "AutogradAdd", "Undefined"} =>
                  /\ same
                  /\ \A j \in 1..Len(n.outs) : St(state, n.outs[j]) = "Unknown"
                  /\ Defs(n.body) \cap DOMAIN state = {}
           /\ n.kind = "Undefined" => same /\ St(state, n.outs[1]) = "Undefined"

C10_Witness ==
    /\ Stepped /\ last.op = "other"
    /\ last.n.body # <<>> /\ last.n.body[1].kind = "GradOf"
    /\ nodes[last.at] = last.n

\* the value the last step redirected the uses of v to, v itself when the
\* step left them alone
LastTarget(v) ==
    LET n == last.n
        a == n.ins[1]
        b == n.ins[2]
    IN IF v \notin Range(n.outs) THEN v
       ELSE IF n.kind = "GradOf" THEN
               IF "Unknown" \in LastInStates THEN v
               ELSE IF LastInStates \subseteq {"Undefined"} THEN nodes[last.at].outs[1]
               ELSE n.bouts[OutIndex(n, v)]
       ELSE IF n.kind = "AutogradAdd" THEN
               IF St(last.state, a) = "Undefined" THEN b
               ELSE IF St(last.state, b) = "Undefined" THEN a
               ELSE IF LastInStates = {"Defined"} THEN nodes[last.at].outs[1]
               ELSE v
       ELSE v

\* C11: the graph inputs stay the typed inputs the pass was given; the list of
\* graph outputs keeps its length, and after each step position i holds the
\* value it held before, or the value the step redirected that value to.
C11_InterfaceKept ==
    /\ DOMAIN itype = Range(GraphInputs)
    /\ Len(gouts) = Len(OutsOf(orig))
    /\ Stepped => \A i \in 1..Len(gouts) : gouts[i] = LastTarget(last.gouts[i])

C11_Witness ==
    /\ Stepped /\ last.n.kind = "AutogradAdd" /\ pc # "aborted"
    /\ \E i \in 1..Len(gouts) : gouts[i] # last.gouts[i]
    /\ \E i \in 1..Len(gouts) : gouts[i] = last.gouts[i]
    /\ Len(gouts) # Len(OutsOf(nodes))

RECURSIVE Pending(_, _)
\* a measure of the work left in the block s for a walker at index p: a GradOf
\* counts two (its own step and the step of the Undefined node that may take
\* its place), any other node one
Pending(s, p) ==
    IF p > Len(s) THEN 0
    ELSE (IF s[p].kind = "GradOf" THEN 2 ELSE 1) + Pending(s, p + 1)

\* C12: the walk ends.  No step dispatches a node that a step of the same run
\* dispatched before; each step that does not abort lowers the work left, the
\* inserted Undefined node and the spliced-in nodes counted; the steps of a
\* run are at most the work the input graph starts with, and the walker
\* stands on a node of the block or at its end.
C12_Terminates ==
    /\ Stepped => last.n.id \notin last.visited
    /\ (Stepped /\ pc = "walk") => Pending(nodes, pos) < Pending(last.nodes, last.at)
    /\ (run = 1 /\ pc = "walk") =>
           Cardinality(visited) + Pending(nodes, pos) <= Pending(orig, 1)
    /\ pc = "walk" => pos \in 1..Len(nodes) + 1

C12_Witness ==
    /\ pc = "done" /\ run = 1
    /\ \E i \in TopKinds("Undefined") : nodes[i].id > NewId(0) /\ nodes[i].id \in visited
    /\ \E i \in 1..Len(nodes) : nodes[i].id < NewId(0) /\ nodes[i].id \notin visited

\* C13: when the pass aborts on a GradOf with an input of state Unknown, that
\* GradOf stands where it stood, with its block, its outputs and their uses
\* as before the step, and the graph, the rewrites of the earlier steps
\* included, has every reference preceded by its definition.
C13_AbortLeavesGraphSound ==
    (pc = "aborted" /\ Stepped /\ last.n.kind = "GradOf"
        /\ "Unknown" \in LastInStates) =>
        LET n == last.n
        IN /\ pos = last.at
           /\ pos \in 1..Len(nodes)
           /\ nodes[pos] = n
           /\ nodes = last.nodes /\ gouts = last.gouts
           /\ IdsOf(n.body) \cap {nodes[i].id : i \in 1..Len(nodes)} = {}
           /\ \A j \in 1..Len(n.outs) :
                 /\ HasUses(Graph, n.outs[j]) = HasUses([nodes |-> last.nodes,
                                                         gouts |-> last.gouts], n.outs[j])
                 /\ \A i \in 1..Len(gouts) : gouts[i] = n.outs[j] <=> last.gouts[i] = n.outs[j]
           /\ Scoped(nodes, Range(GraphInputs))
           /\ Range(gouts) \subseteq Range(GraphInputs) \cup Defs(nodes)

C13_Witness ==
    /\ pc = "aborted" /\ last.op = "assert"
    /\ nodes # orig /\ gouts # OutsOf(orig)
    /\ \E j \in 1..Len(last.n.outs) : last.n.outs[j] \in Range(gouts)

RECURSIVE IdsBut(_, _)
\* the ids of the nodes of s, at any depth, of a kind that is not in ks
IdsBut(s, ks) ==
    UNION {(IF s[i].kind \in ks THEN {} ELSE {s[i].id}) \cup IdsBut(s[i].body, ks) :
              i \in 1..Len(s)}

\* C14, as stated: every node of the graph that is not an Undefined node was
\* in the graph the pass was given, at some depth.
C14_OnlyUndefinedCreated == IdsBut(nodes, {"Undefined"}) \subseteq IdsOf(orig)

\* C14, amended: every node of the graph that is neither an Undefined node nor
\* an addition was in the graph the pass was given, at some depth.  A step
\* creates at most one node, in the top-level block: an Undefined node when it
\* eliminates a GradOf whose inputs are all Undefined, an addition of a and b
\* when it replaces an AutogradAdd(a, b) with both operands Defined.
C14_CreatesUndefinedAndAdd ==
    /\ IdsBut(nodes, {"Undefined", "Add"}) \subseteq IdsOf(orig)
    /\ Stepped =>
           LET new == {i \in 1..Len(nodes) : nodes[i].id \notin IdsOf(last.nodes)}
           IN /\ IdsOf(nodes) \ IdsOf(last.nodes) = {nodes[i].id : i \in new}
              /\ Cardinality(new) <= 1
              /\ \A i \in new :
                    \/ /\ nodes[i].kind = "Undefined"
                       /\ last.n.kind = "GradOf"
                       /\ LastInStates \subseteq {"Undefined"}
                    \/ /\ nodes[i].kind = "Add"
                       /\ last.n.kind = "AutogradAdd"
                       /\ LastInStates = {"Defined"}
                       /\ nodes[i].ins = last.n.ins

C14_Witness ==
    /\ pc = "done" /\ run = 1
    /\ \E i \in TopKinds("Add") : nodes[i].id \notin IdsOf(orig)
    /\ \E i \in TopKinds("Undefined") : nodes[i].id \notin IdsOf(orig)
    /\ IdsBut(nodes, {"Undefined", "Add"}) # {}

\* C15: once a run has seeded, every graph input has an entry in the state
\* map that was written, not created by a lookup: Undefined when its type is
\* a subtype of the undefined tensor type (also when it is a subtype of the
\* dynamic tensor type too, as the undefined tensor type itself is),
\* otherwise Defined when its type is a subtype of the dynamic tensor type,
\* otherwise Unknown.  Seeding writes the graph inputs' entries and no other.
C15_Seeding ==
    /\ pc # "seed" =>
          \A v \in Range(GraphInputs) :
              LET t == itype[v]
                  isUndef == isSubtypeOf(t, "UndefinedTensor")
                  isTensor == isSubtypeOf(t, "Dynamic")
              IN /\ v \in DOMAIN state /\ v \notin defaulted
                 /\ isUndef => state[v] = "Undefined"
                 /\ (isTensor /\ ~isUndef) => state[v] = "Defined"
                 /\ (~isTensor /\ ~isUndef) => state[v] = "Unknown"
                 /\ t = "UndefinedTensor" => isTensor /\ state[v] = "Undefined"
                 /\ t = "Tensor" => state[v] = "Defined"
                 /\ t = "Int" => state[v] = "Unknown"
    /\ last.op = "seed" => DOMAIN state = Range(GraphInputs) /\ pos = 1

C15_Witness ==
    /\ last.op = "seed" /\ run = 1 /\ nodes # <<>>
    /\ itype[1] = "UndefinedTensor" /\ itype[2] = "Tensor"
    /\ state[1] = "Undefined" /\ state[2] = "Defined"

\* C16: every value a dispatched GradOf or AutogradAdd consumes has an entry
\* in the state map before the step, written by the seeding or by the step
\* of the node that defines it; no lookup creates an entry.
C16_NoDefaultLookup ==
    /\ (Stepped /\ last.n.kind \in {"GradOf", "AutogradAdd"}) =>
           Range(last.n.ins) \subseteq DOMAIN last.state
    /\ defaulted = {}

\* the values defined by the nodes that stood, before the last step, ahead of
\* the walker without having been dispatched in this run and without having
\* been created by the pass: the nodes hoisted out of GradOf blocks
LastHoistedVals ==
    UNION {Range(last.nodes[i].outs) :
              i \in {j \in 1..last.at - 1 :
                        /\ last.nodes[j].id \notin last.visited
                        /\ last.nodes[j].id < NewId(0)}}

\* C17: a GradOf or AutogradAdd that consumes a value defined by a hoisted
\* node, of whatever kind, finds it Defined; so an AutogradAdd of two such
\* values is replaced by an addition, and a GradOf with such an input is not
\* eliminated as all-undefined.
C17_HoistedOutputsDefined ==
    (Stepped /\ last.n.kind \in {"GradOf", "AutogradAdd"}) =>
        LET n == last.n
            H == LastHoistedVals
        IN /\ \A v \in Range(n.ins) \cap H :
                 St(last.state, v) = "Defined" /\ St(state, v) = "Defined"
           /\ (n.kind = "AutogradAdd" /\ Range(n.ins) \subseteq H) =>
                 /\ last.op = "upgrade" /\ pc = "walk"
                 /\ nodes[last.at].kind = "Add" /\ nodes[last.at].ins = n.ins
                 /\ n.id \notin IdsOf(nodes)
           /\ (n.kind = "GradOf" /\ Range(n.ins) \cap H # {}) =>
                 last.op \in {"hoist", "assert"}

C17_Witness ==
    /\ Stepped /\ last.op = "upgrade" /\ pc = "walk"
    /\ Range(last.n.ins) \subseteq LastHoistedVals
    /\ \E i \in 1..last.at - 1 :
          /\ last.nodes[i].kind = "Undefined"
          /\ last.nodes[i].outs[1] \in Range(last.n.ins)
          /\ last.nodes[i].id \in IdsOf(orig) \ {orig[j].id : j \in 1..Len(orig)}

\* the indices, in the top-level block s, of the Undefined nodes the pass made
\* after it had made b nodes
MadeUndef(s, b) == {i \in 1..Len(s) : s[i].kind = "Undefined" /\ s[i].id > NewId(b)}

\* C18: the step that eliminates an all-undefined GradOf leaves the walker on
\* the new Undefined node, which stands where the GradOf stood; an Undefined
\* node the pass made in this run is either that node, about to be dispatched, or stands
\* behind the walker with a written state Undefined, and every use of its
\* value stands after it.  Hence an AutogradAdd that uses such a value is
\* dropped, and a GradOf whose inputs are all such values is eliminated with
\* a new Undefined node of its own.
C18_UndefinedPropagates ==
    /\ (Stepped /\ last.op = "all_undefined") =>
          /\ pc = "walk" /\ pos = last.at /\ AtNode
          /\ cur.kind = "Undefined" /\ cur.id \notin IdsOf(last.nodes)
          /\ Len(nodes) = Len(last.nodes)
          /\ \A i \in 1..Len(nodes) : i # pos => nodes[i].id = last.nodes[i].id
    /\ \A i \in MadeUndef(nodes, base) :
          /\ \/ i = pos /\ last.op = "all_undefined"
             \/ /\ i < pos
                /\ nodes[i].outs[1] \in DOMAIN state \ defaulted
                /\ state[nodes[i].outs[1]] = "Undefined"
          /\ ~UsedIn(nodes[i].outs[1], SubSeq(nodes, 1, i))
    /\ Stepped =>
          LET n == last.n
              U == {last.nodes[i].outs[1] : i \in MadeUndef(last.nodes, 0)}
          IN /\ (n.kind = "AutogradAdd" /\ Range(n.ins) \cap U # {}) =>
                   /\ last.op \in {"drop_a", "drop_b"}
                   /\ pc = "walk" /\ n.id \notin IdsOf(nodes)
             /\ (n.kind = "GradOf" /\ n.ins # <<>> /\ Range(n.ins) \subseteq U) =>
                   /\ last.op = "all_undefined"
                   /\ n.id \notin IdsOf(nodes)
                   /\ Cardinality(MadeUndef(nodes, 0)) = Cardinality(MadeUndef(last.nodes, 0)) + 1

C18_Witness ==
    /\ Stepped /\ last.op = "all_undefined" /\ pc = "walk"
    /\ last.n.ins # <<>>
    /\ Range(last.n.ins) \subseteq {last.nodes[i].outs[1] : i \in MadeUndef(last.nodes, 0)}
    /\ Cardinality(MadeUndef(nodes, 0)) = 2
    /\ run = 1

\* C19: every step that deletes its node (the two GradOf rewrites and the
\* three AutogradAdd rewrites) finds no use of any output of the node left,
\* in a node at any depth or among the graph outputs, so the deletion goes
\* through; the pass aborts on the GradOf assertion only.
C19_DeleteIsLegal ==
    /\ pc = "aborted" => last.op = "assert"
    /\ (Stepped /\ last.op \in {"all_undefined", "hoist", "drop_a", "drop_b", "upgrade"}) =>
          /\ pc = "walk"
          /\ last.n.id \notin IdsOf(nodes)
          /\ \A j \in 1..Len(last.n.outs) : ~HasUses(Graph, last.n.outs[j])
          /\ Len(nodes) = Len(last.nodes) - 1
                + (IF last.op = "hoist" THEN Len(last.n.body)
                   ELSE IF last.op \in {"all_undefined", "upgrade"} THEN 1 ELSE 0)

C19_Witness ==
    /\ Stepped /\ last.op = "hoist" /\ pc = "walk"
    /\ Len(last.n.outs) = 2
    /\ \A j \in 1..2 :
          /\ UsedIn(last.n.outs[j], LastAfter(last.at))
          /\ last.n.outs[j] \in Range(last.gouts)
    /\ last.n.id \notin IdsOf(nodes)

====
